---- MODULE Spec2Model ----
(***************************************************************************)
(* Model of lighthouse-core/audits/consistently-interactive.js:            *)
(* the network and CPU quiet-period extractors, the two-queue matcher of   *)
(* findOverlappingQuietPeriods and the timestamp computed by audit.        *)
(*                                                                         *)
(* Two specifications share the operators that model the code:             *)
(*   SpecNet  - _findNetworkQuietPeriods alone, one boundary per step,     *)
(*              with the network records kept in the state;                *)
(*   Spec     - audit as a whole: long tasks, both extractors, the         *)
(*              filters, the matcher loop and the reported timestamp.      *)
(* All times are in milliseconds except record.startTime / endTime, which  *)
(* are in seconds as in the source.                                        *)
(***************************************************************************)
EXTENDS Integers, Sequences, FiniteSets, TLC

VARIABLES
  pc,                \* position in the code
  timestamps,        \* traceOfTab.timestamps
  networkRecords,    \* argument of _findNetworkQuietPeriods (SpecNet)
  pending,           \* boundaries of timeBoundaries that forEach has not visited yet
  inflight,          \* let inflight
  quietPeriodStart,  \* let quietPeriodStart
  quietPeriods,      \* const quietPeriods of _findNetworkQuietPeriods
  endBeforeStart,    \* history: some record's end boundary was visited before its start
  longTasks,         \* const longTasks of audit
  networkRaw,        \* value of this._findNetworkQuietPeriods(...) before .filter
  cpuRaw,            \* value of this._findCPUQuietPeriods(...) before .filter
  networkQuietPeriods, \* const networkQuietPeriods (filtered)
  cpuQuietPeriods,   \* const cpuQuietPeriods (filtered)
  networkQueue,      \* const networkQueue
  cpuQueue,          \* const cpuQueue
  networkCandidate,  \* let networkCandidate
  cpuCandidate,      \* let cpuCandidate
  culprit,           \* const culprit of the thrown error
  timestamp,         \* const timestamp of audit
  timeInMs           \* const timeInMs of audit

vars == <<pc, timestamps, networkRecords, pending, inflight, quietPeriodStart,
          quietPeriods, endBeforeStart, longTasks, networkRaw, cpuRaw,
          networkQuietPeriods, cpuQuietPeriods, networkQueue, cpuQueue,
          networkCandidate, cpuCandidate, culprit, timestamp, timeInMs>>

netVars == <<networkRecords, pending, inflight, quietPeriodStart, quietPeriods,
             endBeforeStart>>

auditVars == <<longTasks, networkRaw, cpuRaw, networkQuietPeriods, cpuQuietPeriods,
               networkQueue, cpuQueue, networkCandidate, cpuCandidate, culprit,
               timestamp, timeInMs>>

(***************************************************************************)
(* Program constants                                                       *)
(***************************************************************************)
REQUIRED_QUIET_WINDOW == 5000
ALLOWED_CONCURRENT_REQUESTS == 2

(***************************************************************************)
(* Bounds of the model                                                     *)
(***************************************************************************)
MaxRecords == 4      \* network records per run
MaxTasks == 2        \* top-level main-thread events per run
TraceEnd == 20000    \* traceOfTab.timestamps.traceEnd, in ms

\* JavaScript's Infinity: larger than every time of the model, so that
\* Math.min(t, Infinity) = t and (x !== Infinity) behave as in the source.
Infinity == (TraceEnd + 1) * 1000

\* undefined, the value of shift() on an empty array
Undefined == [undefined |-> TRUE]

Min(a, b) == IF a <= b THEN a ELSE b
Max(a, b) == IF a >= b THEN a ELSE b

(***************************************************************************)
(* Inputs                                                                  *)
(***************************************************************************)
\* record times in seconds, none after the end of the trace
Seconds == {s \in {0, 6, 10, 16, 20} : s * 1000 <= TraceEnd}

LastSecond == CHOOSE s \in Seconds : \A u \in Seconds : u <= s

\* Requests that count may start and end at any of these times. A data or ws
\* request lasts the whole trace, where counting it would change most.
RecordKinds ==
  {[startTime |-> s, endTime |-> e, scheme |-> "https"] :
     s \in Seconds, e \in Seconds}
  \cup {[startTime |-> 0, endTime |-> LastSecond, scheme |-> sc] : sc \in {"data", "ws"}}

SchemeRank(sc) == IF sc = "https" THEN 0 ELSE IF sc = "data" THEN 1 ELSE 2

RecordKey(r) ==
  (r.startTime * ((TraceEnd \div 1000) + 1) + r.endTime) * 3 + SchemeRank(r.scheme)

\* Arrays of at most MaxRecords records with startTime <= endTime. The array
\* order only matters to the code through the order of equal-time boundaries
\* after sort(), which the model leaves open; so one order per multiset is kept.
RecordInputs ==
  UNION {{q \in [1..n -> {r \in RecordKinds : r.startTime <= r.endTime}] :
            \A i \in 1..(n - 1) : RecordKey(q[i]) <= RecordKey(q[i + 1])} :
         n \in 0..MaxRecords}

(***************************************************************************)
(* _findNetworkQuietPeriods                                                *)
(***************************************************************************)
\* variant: only data requests are left out
EligibleUnlessData(record) == ~(record.scheme = "data")

Eligible(record) == ~(record.scheme = "data" \/ record.scheme = "ws")

\* lines 47-56: the boundaries pushed by reduce (rec is the identity of the
\* record the boundary object was made for)
TimeBoundaries(records) ==
  UNION {{[time |-> records[i].startTime * 1000, isStart |-> TRUE, rec |-> i],
          [time |-> records[i].endTime * 1000, isStart |-> FALSE, rec |-> i]} :
         i \in {j \in 1..Len(records) : Eligible(records[j])}}

\* line 57: sort((a, b) => a.time - b.time) orders by time only; the order of
\* boundaries of equal time is whatever the engine's sort leaves. The next
\* boundary forEach visits is any unvisited boundary of least time.
SortedNext(rem) == {b \in rem : \A c \in rem : b.time <= c.time}

SweepInit == [inflight |-> 0, quietPeriodStart |-> 0, quietPeriods |-> <<>>]

\* variant: an end boundary always moves the pending start to its own time
ProcessBoundaryWithoutMin(s, boundary) ==
  IF boundary.isStart
  THEN LET exiting == (s.inflight = ALLOWED_CONCURRENT_REQUESTS) IN
       [inflight |-> s.inflight + 1,
        quietPeriodStart |-> IF exiting THEN Infinity ELSE s.quietPeriodStart,
        quietPeriods |->
          IF exiting
          THEN Append(s.quietPeriods,
                      [start |-> s.quietPeriodStart, end |-> boundary.time])
          ELSE s.quietPeriods]
  ELSE LET n == s.inflight - 1 IN
       [inflight |-> n,
        quietPeriodStart |->
          IF n <= ALLOWED_CONCURRENT_REQUESTS
          THEN boundary.time
          ELSE s.quietPeriodStart,
        quietPeriods |-> s.quietPeriods]

\* variant: a quiet period is entered only below the allowed concurrency
ProcessBoundaryStrictlyBelow(s, boundary) ==
  IF boundary.isStart
  THEN LET exiting == (s.inflight = ALLOWED_CONCURRENT_REQUESTS) IN
       [inflight |-> s.inflight + 1,
        quietPeriodStart |-> IF exiting THEN Infinity ELSE s.quietPeriodStart,
        quietPeriods |->
          IF exiting
          THEN Append(s.quietPeriods,
                      [start |-> s.quietPeriodStart, end |-> boundary.time])
          ELSE s.quietPeriods]
  ELSE LET n == s.inflight - 1 IN
       [inflight |-> n,
        quietPeriodStart |->
          IF n < ALLOWED_CONCURRENT_REQUESTS
          THEN Min(boundary.time, s.quietPeriodStart)
          ELSE s.quietPeriodStart,
        quietPeriods |-> s.quietPeriods]

\* lines 62-77: the body of the forEach callback
ProcessBoundary(s, boundary) ==
  IF boundary.isStart
  THEN LET exiting == (s.inflight = ALLOWED_CONCURRENT_REQUESTS) IN
       [inflight |-> s.inflight + 1,
        quietPeriodStart |-> IF exiting THEN Infinity ELSE s.quietPeriodStart,
        quietPeriods |->
          IF exiting
          THEN Append(s.quietPeriods,
                      [start |-> s.quietPeriodStart, end |-> boundary.time])
          ELSE s.quietPeriods]
  ELSE LET n == s.inflight - 1 IN
       [inflight |-> n,
        quietPeriodStart |->
          IF n <= ALLOWED_CONCURRENT_REQUESTS
          THEN Min(boundary.time, s.quietPeriodStart)
          ELSE s.quietPeriodStart,
        quietPeriods |-> s.quietPeriods]

\* lines 79-84
SweepFinish(s, traceEnd) ==
  IF s.quietPeriodStart # Infinity
  THEN Append(s.quietPeriods, [start |-> s.quietPeriodStart, end |-> traceEnd])
  ELSE s.quietPeriods

\* All sweeps of a boundary set: every order sort() may leave equal times in.
RECURSIVE SweepFrontier(_)
SweepFrontier(F) ==
  IF \A x \in F : x.rem = {}
  THEN {x.s : x \in F}
  ELSE SweepFrontier(UNION {{[s |-> ProcessBoundary(x.s, b), rem |-> x.rem \ {b}] :
                               b \in SortedNext(x.rem)} : x \in F})

\* the values _findNetworkQuietPeriods(records, traceOfTab) can return
FindNetworkQuietPeriods(records, traceEnd) ==
  {SweepFinish(s, traceEnd) :
     s \in SweepFrontier({[s |-> SweepInit, rem |-> TimeBoundaries(records)]})}

(***************************************************************************)
(* SpecNet: the sweep, one boundary per step                               *)
(***************************************************************************)
NoAudit ==
  /\ longTasks = <<>>
  /\ networkRaw = <<>>
  /\ cpuRaw = <<>>
  /\ networkQuietPeriods = <<>>
  /\ cpuQuietPeriods = <<>>
  /\ networkQueue = <<>>
  /\ cpuQueue = <<>>
  /\ networkCandidate = Undefined
  /\ cpuCandidate = Undefined
  /\ culprit = ""
  /\ timestamp = 0
  /\ timeInMs = 0

NoSweep ==
  /\ pending = {}
  /\ inflight = 0
  /\ quietPeriodStart = 0
  /\ quietPeriods = <<>>
  /\ endBeforeStart = FALSE

InitNet ==
  /\ pc = "reduce"
  /\ timestamps = [navigationStart |-> 0, firstMeaningfulPaint |-> 0,
                   domContentLoaded |-> 0, traceEnd |-> TraceEnd]
  /\ networkRecords \in RecordInputs
  /\ NoSweep
  /\ NoAudit

\* lines 46-61
BuildBoundaries ==
  /\ pc = "reduce"
  /\ pending' = TimeBoundaries(networkRecords)
  /\ inflight' = SweepInit.inflight
  /\ quietPeriodStart' = SweepInit.quietPeriodStart
  /\ quietPeriods' = SweepInit.quietPeriods
  /\ pc' = "forEach"
  /\ UNCHANGED <<timestamps, networkRecords, endBeforeStart, auditVars>>

Visit(boundary) ==
  LET s == ProcessBoundary([inflight |-> inflight,
                            quietPeriodStart |-> quietPeriodStart,
                            quietPeriods |-> quietPeriods], boundary) IN
  /\ pending' = pending \ {boundary}
  /\ inflight' = s.inflight
  /\ quietPeriodStart' = s.quietPeriodStart
  /\ quietPeriods' = s.quietPeriods
  /\ endBeforeStart' =
       (endBeforeStart \/
        (~boundary.isStart /\ \E c \in pending : c.isStart /\ c.rec = boundary.rec))
  /\ UNCHANGED <<pc, timestamps, networkRecords, auditVars>>

\* lines 63-69
StartBoundary ==
  /\ pc = "forEach"
  /\ \E boundary \in SortedNext(pending) : boundary.isStart /\ Visit(boundary)

\* lines 70-76
EndBoundary ==
  /\ pc = "forEach"
  /\ \E boundary \in SortedNext(pending) : ~boundary.isStart /\ Visit(boundary)

\* lines 79-84
FinishSweep ==
  /\ pc = "forEach"
  /\ pending = {}
  /\ quietPeriods' = SweepFinish([inflight |-> inflight,
                                  quietPeriodStart |-> quietPeriodStart,
                                  quietPeriods |-> quietPeriods], timestamps.traceEnd)
  /\ pc' = "netDone"
  /\ UNCHANGED <<timestamps, networkRecords, pending, inflight, quietPeriodStart,
                 endBeforeStart, auditVars>>

NextNet == BuildBoundaries \/ StartBoundary \/ EndBoundary \/ FinishSweep

SpecNet == InitNet /\ [][NextNet]_vars

(***************************************************************************)
(* _findCPUQuietPeriods                                                    *)
(***************************************************************************)
\* variant: the period before the first task ends at the end of that task
CpuCallbackFirstTaskEnd(tasks, index, navStartTsInMs, traceEndTsInMs) ==
  LET task == tasks[index] IN
  (IF index = 1
   THEN <<[start |-> 0, end |-> task.end + navStartTsInMs]>>
   ELSE <<>>)
  \o
  (IF index = Len(tasks)
   THEN <<[start |-> task.end + navStartTsInMs, end |-> traceEndTsInMs]>>
   ELSE <<[start |-> task.end + navStartTsInMs,
           end |-> tasks[index + 1].start + navStartTsInMs]>>)

\* variant: the start of the next task is not shifted by navigationStart
CpuCallbackUnshiftedEnd(tasks, index, navStartTsInMs, traceEndTsInMs) ==
  LET task == tasks[index] IN
  (IF index = 1
   THEN <<[start |-> 0, end |-> task.start + navStartTsInMs]>>
   ELSE <<>>)
  \o
  (IF index = Len(tasks)
   THEN <<[start |-> task.end + navStartTsInMs, end |-> traceEndTsInMs]>>
   ELSE <<[start |-> task.end + navStartTsInMs,
           end |-> tasks[index + 1].start]>>)

\* lines 95-114: the periods the forEach callback pushes for longTasks[index]
\* (index counts from 1 here)
CpuCallback(tasks, index, navStartTsInMs, traceEndTsInMs) ==
  LET task == tasks[index] IN
  (IF index = 1
   THEN <<[start |-> 0, end |-> task.start + navStartTsInMs]>>
   ELSE <<>>)
  \o
  (IF index = Len(tasks)
   THEN <<[start |-> task.end + navStartTsInMs, end |-> traceEndTsInMs]>>
   ELSE <<[start |-> task.end + navStartTsInMs,
           end |-> tasks[index + 1].start + navStartTsInMs]>>)

RECURSIVE CpuForEach(_, _, _, _)
CpuForEach(tasks, index, navStartTsInMs, traceEndTsInMs) ==
  IF index > Len(tasks)
  THEN <<>>
  ELSE CpuCallback(tasks, index, navStartTsInMs, traceEndTsInMs)
       \o CpuForEach(tasks, index + 1, navStartTsInMs, traceEndTsInMs)

\* lines 87-117
FindCPUQuietPeriods(tasks, ts) ==
  IF Len(tasks) = 0
  THEN <<[start |-> 0, end |-> ts.traceEnd]>>
  ELSE CpuForEach(tasks, 1, ts.navigationStart, ts.traceEnd)

(***************************************************************************)
(* findOverlappingQuietPeriods                                             *)
(***************************************************************************)
\* lines 123-124 and 126-127: the filter predicate
KeepPeriod(period, FMPTsInMs) ==
  /\ period.end > FMPTsInMs + REQUIRED_QUIET_WINDOW
  /\ period.end - period.start >= REQUIRED_QUIET_WINDOW

FilterPeriods(periods, FMPTsInMs) ==
  SelectSeq(periods, LAMBDA period : KeepPeriod(period, FMPTsInMs))

\* Array.prototype.shift: the removed head (undefined when empty) and the rest
Shift(queue) ==
  IF queue = <<>>
  THEN [value |-> Undefined, rest |-> <<>>]
  ELSE [value |-> Head(queue), rest |-> Tail(queue)]

\* variant: the network period only has to last until the CPU period starts
MatchDecisionWithoutWindow(cpu, network) ==
  IF cpu.start >= network.start
  THEN IF network.end >= cpu.start
       THEN "return"
       ELSE "shiftNetwork"
  ELSE IF cpu.end >= network.start + REQUIRED_QUIET_WINDOW
       THEN "return"
       ELSE "shiftCpu"

\* variant: a common part of exactly the required length is not enough
MatchDecisionStrict(cpu, network) ==
  IF cpu.start >= network.start
  THEN IF network.end > cpu.start + REQUIRED_QUIET_WINDOW
       THEN "return"
       ELSE "shiftNetwork"
  ELSE IF cpu.end > network.start + REQUIRED_QUIET_WINDOW
       THEN "return"
       ELSE "shiftCpu"

\* variant: the candidate that starts later is the one discarded
MatchDecisionShiftsLater(cpu, network) ==
  IF cpu.start >= network.start
  THEN IF network.end >= cpu.start + REQUIRED_QUIET_WINDOW
       THEN "return"
       ELSE "shiftCpu"
  ELSE IF cpu.end >= network.start + REQUIRED_QUIET_WINDOW
       THEN "return"
       ELSE "shiftNetwork"

\* lines 136-160: what one iteration of the while loop does with its candidates
MatchDecision(cpu, network) ==
  IF cpu.start >= network.start
  THEN IF network.end >= cpu.start + REQUIRED_QUIET_WINDOW
       THEN "return"
       ELSE "shiftNetwork"
  ELSE IF cpu.end >= network.start + REQUIRED_QUIET_WINDOW
       THEN "return"
       ELSE "shiftCpu"

\* variant: the queue that still has a candidate is blamed
CulpritIsRemaining(cpu) == IF cpu # Undefined THEN "CPU" ELSE "Network"

\* line 163
Culprit(cpu) == IF cpu # Undefined THEN "Network" ELSE "CPU"

(***************************************************************************)
(* audit                                                                   *)
(***************************************************************************)
\* line 189
IsLongTask(event) == event.end - event.start >= 50

\* variant: firstMeaningfulPaint is left out of the maximum
TimestampWithoutPaint(cpuQuietPeriod, ts) ==
  Max(cpuQuietPeriod.start, ts.domContentLoaded)

\* lines 194-198
Timestamp(cpuQuietPeriod, ts) ==
  Max(Max(cpuQuietPeriod.start, ts.firstMeaningfulPaint), ts.domContentLoaded)

(***************************************************************************)
(* Inputs of audit                                                         *)
(***************************************************************************)
\* firstMeaningfulPaint = 0 stands for a trace without the marker
TimestampInputs ==
  [navigationStart : {0, 1000},
   firstMeaningfulPaint : {0, 500, 5000},
   domContentLoaded : {500, 12000},
   traceEnd : {TraceEnd}]

\* event times relative to navigationStart
EventTimes ==
  {t \in {0, 1000, 1200, 1240, 2000, 9000, 12000, 15000, 16000} : t + 1000 <= TraceEnd}

\* getMainThreadTopLevelEvents: at most MaxTasks events in ascending order that
\* do not overlap
EventInputs ==
  UNION {{q \in [1..n -> {[start |-> a, end |-> b] : a \in EventTimes, b \in EventTimes}] :
            /\ \A i \in 1..n : q[i].start <= q[i].end
            /\ \A i \in 1..(n - 1) : q[i].end <= q[i + 1].start} :
         n \in 0..MaxTasks}

\* every value _findNetworkQuietPeriods can return for the records of a run
NetworkQuietPeriodResults ==
  UNION {FindNetworkQuietPeriods(records, TraceEnd) : records \in RecordInputs}

(***************************************************************************)
(* Spec: audit                                                             *)
(***************************************************************************)
Init ==
  /\ pc = "audit"
  /\ timestamps \in TimestampInputs
  /\ networkRecords = <<>>
  /\ NoSweep
  /\ NoAudit

\* lines 184-186
NoFirstMeaningfulPaint ==
  /\ pc = "audit"
  /\ timestamps.firstMeaningfulPaint = 0
  /\ pc' = "noFMP"
  /\ UNCHANGED <<timestamps, netVars, auditVars>>

\* lines 188-189
GetLongTasks ==
  /\ pc = "audit"
  /\ timestamps.firstMeaningfulPaint # 0
  /\ \E events \in EventInputs : longTasks' = SelectSeq(events, IsLongTask)
  /\ pc' = "findNetwork"
  /\ UNCHANGED <<timestamps, netVars, networkRaw, cpuRaw, networkQuietPeriods,
                 cpuQuietPeriods, networkQueue, cpuQueue, networkCandidate,
                 cpuCandidate, culprit, timestamp, timeInMs>>

\* line 122, the call: artifacts.networkRecords is read here and nowhere else,
\* so the records of the run are drawn here
CallFindNetworkQuietPeriods ==
  /\ pc = "findNetwork"
  /\ networkRaw' \in NetworkQuietPeriodResults
  /\ pc' = "filterNetwork"
  /\ UNCHANGED <<timestamps, netVars, longTasks, cpuRaw, networkQuietPeriods,
                 cpuQuietPeriods, networkQueue, cpuQueue, networkCandidate,
                 cpuCandidate, culprit, timestamp, timeInMs>>

\* lines 122-124, the filter; the unfiltered array is not referenced again
FilterNetwork ==
  /\ pc = "filterNetwork"
  /\ networkQuietPeriods' = FilterPeriods(networkRaw, timestamps.firstMeaningfulPaint)
  /\ networkRaw' = <<>>
  /\ pc' = "findCPU"
  /\ UNCHANGED <<timestamps, netVars, longTasks, cpuRaw, cpuQuietPeriods,
                 networkQueue, cpuQueue, networkCandidate, cpuCandidate, culprit,
                 timestamp, timeInMs>>

\* line 125, the call
CallFindCPUQuietPeriods ==
  /\ pc = "findCPU"
  /\ cpuRaw' = FindCPUQuietPeriods(longTasks, timestamps)
  /\ pc' = "filterCPU"
  /\ UNCHANGED <<timestamps, netVars, longTasks, networkRaw, networkQuietPeriods,
                 cpuQuietPeriods, networkQueue, cpuQueue, networkCandidate,
                 cpuCandidate, culprit, timestamp, timeInMs>>

\* lines 125-134: the filter, the two slices and the two first shifts
FilterCPU ==
  LET cpu == FilterPeriods(cpuRaw, timestamps.firstMeaningfulPaint) IN
  /\ pc = "filterCPU"
  /\ cpuQuietPeriods' = cpu
  /\ cpuRaw' = <<>>
  /\ cpuCandidate' = Shift(cpu).value
  /\ cpuQueue' = Shift(cpu).rest
  /\ networkCandidate' = Shift(networkQuietPeriods).value
  /\ networkQueue' = Shift(networkQuietPeriods).rest
  /\ pc' = "while"
  /\ UNCHANGED <<timestamps, netVars, longTasks, networkRaw, networkQuietPeriods,
                 culprit, timestamp, timeInMs>>

InLoop ==
  /\ pc = "while"
  /\ cpuCandidate # Undefined
  /\ networkCandidate # Undefined

\* lines 136-144 and 150-156
ReturnPair ==
  /\ InLoop
  /\ MatchDecision(cpuCandidate, networkCandidate) = "return"
  /\ pc' = "returned"
  /\ UNCHANGED <<timestamps, netVars, auditVars>>

\* lines 145-147
ShiftNetwork ==
  /\ InLoop
  /\ MatchDecision(cpuCandidate, networkCandidate) = "shiftNetwork"
  /\ networkCandidate' = Shift(networkQueue).value
  /\ networkQueue' = Shift(networkQueue).rest
  /\ UNCHANGED <<pc, timestamps, netVars, longTasks, networkRaw, cpuRaw,
                 networkQuietPeriods, cpuQuietPeriods, cpuQueue, cpuCandidate,
                 culprit, timestamp, timeInMs>>

\* lines 157-159
ShiftCpu ==
  /\ InLoop
  /\ MatchDecision(cpuCandidate, networkCandidate) = "shiftCpu"
  /\ cpuCandidate' = Shift(cpuQueue).value
  /\ cpuQueue' = Shift(cpuQueue).rest
  /\ UNCHANGED <<pc, timestamps, netVars, longTasks, networkRaw, cpuRaw,
                 networkQuietPeriods, cpuQuietPeriods, networkQueue,
                 networkCandidate, culprit, timestamp, timeInMs>>

\* lines 163-164
ThrowDidNotQuiet ==
  /\ pc = "while"
  /\ (cpuCandidate = Undefined \/ networkCandidate = Undefined)
  /\ culprit' = Culprit(cpuCandidate)
  /\ pc' = "thrown"
  /\ UNCHANGED <<timestamps, netVars, longTasks, networkRaw, cpuRaw,
                 networkQuietPeriods, cpuQuietPeriods, networkQueue, cpuQueue,
                 networkCandidate, cpuCandidate, timestamp, timeInMs>>

\* lines 192-200
ComputeTimestamp ==
  /\ pc = "returned"
  /\ timestamp' = Timestamp(cpuCandidate, timestamps)
  /\ timeInMs' = Timestamp(cpuCandidate, timestamps) - timestamps.navigationStart
  /\ pc' = "audited"
  /\ UNCHANGED <<timestamps, netVars, longTasks, networkRaw, cpuRaw,
                 networkQuietPeriods, cpuQuietPeriods, networkQueue, cpuQueue,
                 networkCandidate, cpuCandidate, culprit>>

Next ==
  \/ NoFirstMeaningfulPaint
  \/ GetLongTasks
  \/ CallFindNetworkQuietPeriods
  \/ FilterNetwork
  \/ CallFindCPUQuietPeriods
  \/ FilterCPU
  \/ ReturnPair
  \/ ShiftNetwork
  \/ ShiftCpu
  \/ ThrowDidNotQuiet
  \/ ComputeTimestamp

Spec == Init /\ [][Next]_vars

(***************************************************************************)
(* Notions the properties are stated with                                  *)
(***************************************************************************)
\* length of the common part of two periods (negative when they are apart)
Overlap(c, n) == Min(c.end, n.end) - Max(c.start, n.start)

Qualifies(c, n) == Overlap(c, n) >= REQUIRED_QUIET_WINDOW

\* positions of the candidates in the filtered sequences
CpuIndex == Len(cpuQuietPeriods) - Len(cpuQueue)
NetworkIndex == Len(networkQuietPeriods) - Len(networkQueue)

\* end >= start in every period, starts non-decreasing along the sequence
WellOrdered(periods) ==
  /\ \A i \in 1..Len(periods) : periods[i].end >= periods[i].start
  /\ \A i \in 1..(Len(periods) - 1) : periods[i].start <= periods[i + 1].start

Covered(periods, t) ==
  \E i \in 1..Len(periods) : periods[i].start <= t /\ t <= periods[i].end

\* number of records, other than data and ws ones, in flight at time t
Concurrency(records, t) ==
  Cardinality({i \in 1..Len(records) :
                 /\ records[i].scheme \notin {"data", "ws"}
                 /\ records[i].startTime * 1000 < t
                 /\ t < records[i].endTime * 1000})

BoundaryTimes(records) == {b.time : b \in TimeBoundaries(records)}

\* the times of [0, traceEnd] on a half-second grid that are no boundary time
ProbeTimes(records) ==
  {t \in {500 * k : k \in 0..(TraceEnd \div 500)} \cup {TraceEnd} :
     t \notin BoundaryTimes(records)}

\* some start boundary and some end boundary have the same time
StartMeetsEnd(records) ==
  \E a \in TimeBoundaries(records), b \in TimeBoundaries(records) :
    a.isStart /\ ~b.isStart /\ a.time = b.time

(***************************************************************************)
(* Properties of findOverlappingQuietPeriods and audit (Spec)              *)
(***************************************************************************)
\* C1: a returned pair overlaps for at least REQUIRED_QUIET_WINDOW, and each of
\* its periods lasts at least REQUIRED_QUIET_WINDOW and ends after
\* firstMeaningfulPaint + REQUIRED_QUIET_WINDOW.
ReturnedPairOverlaps ==
  pc = "returned" =>
    /\ Overlap(cpuCandidate, networkCandidate) >= REQUIRED_QUIET_WINDOW
    /\ \A p \in {cpuCandidate, networkCandidate} :
         /\ p.end - p.start >= REQUIRED_QUIET_WINDOW
         /\ p.end > timestamps.firstMeaningfulPaint + REQUIRED_QUIET_WINDOW

\* a pair is returned after candidates of both queues were discarded
ReturnedAfterDiscards ==
  /\ pc = "returned"
  /\ CpuIndex >= 2
  /\ NetworkIndex >= 2

\* C2: the error is thrown only when no filtered CPU period and filtered
\* network period overlap for REQUIRED_QUIET_WINDOW.
ThrowsOnlyWithoutQualifyingPair ==
  pc = "thrown" =>
    \A i \in 1..Len(cpuQuietPeriods), j \in 1..Len(networkQuietPeriods) :
      ~Qualifies(cpuQuietPeriods[i], networkQuietPeriods[j])

\* the error is thrown after candidates of both queues were compared and discarded
ThrownAfterDiscards ==
  /\ pc = "thrown"
  /\ Len(cpuQuietPeriods) >= 2
  /\ Len(networkQuietPeriods) >= 2

\* C3: no qualifying pair has its CPU period before the returned CPU period or
\* its network period before the returned network period, so the returned pair
\* has the least max(start) of all qualifying pairs.
ReturnedPairIsEarliest ==
  pc = "returned" =>
    \A i \in 1..Len(cpuQuietPeriods), j \in 1..Len(networkQuietPeriods) :
      Qualifies(cpuQuietPeriods[i], networkQuietPeriods[j]) =>
        /\ i >= CpuIndex
        /\ j >= NetworkIndex
        /\ Max(cpuQuietPeriods[i].start, networkQuietPeriods[j].start)
             >= Max(cpuCandidate.start, networkCandidate.start)

\* a pair is returned after a discard while a later pair qualifies as well
ReturnedWithLaterQualifyingPair ==
  /\ pc = "returned"
  /\ CpuIndex + NetworkIndex >= 3
  /\ \E i \in 1..Len(cpuQuietPeriods), j \in 1..Len(networkQuietPeriods) :
       /\ Qualifies(cpuQuietPeriods[i], networkQuietPeriods[j])
       /\ (i > CpuIndex \/ j > NetworkIndex)

\* C4 as stated: [timestamp, timestamp + REQUIRED_QUIET_WINDOW] lies inside the
\* matched CPU period and inside the matched network period.
TimestampWindowInsideBothPeriods ==
  pc = "audited" =>
    /\ timestamp >= cpuCandidate.start
    /\ timestamp >= networkCandidate.start
    /\ timestamp + REQUIRED_QUIET_WINDOW <= cpuCandidate.end
    /\ timestamp + REQUIRED_QUIET_WINDOW <= networkCandidate.end

\* C4 amended: the timestamp is never before the matched CPU period's start,
\* firstMeaningfulPaint or domContentLoaded; when domContentLoaded is not later
\* than both of the others, [timestamp, timestamp + REQUIRED_QUIET_WINDOW] lies
\* inside the matched CPU period and ends no later than the matched network
\* period; it starts inside the network period when the CPU period does not
\* start before the network period.
TimestampWindowInsideCpuPeriod ==
  pc = "audited" =>
    /\ timestamp >= cpuCandidate.start
    /\ timestamp >= timestamps.firstMeaningfulPaint
    /\ timestamp >= timestamps.domContentLoaded
    /\ timestamps.domContentLoaded
         <= Max(cpuCandidate.start, timestamps.firstMeaningfulPaint) =>
         /\ timestamp + REQUIRED_QUIET_WINDOW <= cpuCandidate.end
         /\ timestamp + REQUIRED_QUIET_WINDOW <= networkCandidate.end
         /\ cpuCandidate.start >= networkCandidate.start =>
              timestamp >= networkCandidate.start

\* the timestamp is reported before the matched network period starts
TimestampBeforeNetworkQuiet ==
  /\ pc = "audited"
  /\ timestamp < networkCandidate.start
  /\ timestamps.domContentLoaded
       <= Max(cpuCandidate.start, timestamps.firstMeaningfulPaint)

ExtractorOutputsWellOrdered ==
  /\ pc = "filterNetwork" => WellOrdered(networkRaw)
  /\ pc = "filterCPU" => WellOrdered(cpuRaw)

\* both extractors have returned several periods in this run
SeveralPeriodsExtracted ==
  /\ pc = "filterCPU"
  /\ Len(cpuRaw) >= 3
  /\ Len(networkQuietPeriods) >= 2

\* C8: the error names "Network" exactly when a CPU candidate is left (the
\* network queue ran out) and "CPU" otherwise; it names "CPU" when no CPU
\* period passes the filter, whatever the network periods.
CulpritIsExhaustedQueue ==
  pc = "thrown" =>
    /\ culprit = "Network" <=> cpuCandidate # Undefined
    /\ culprit = "CPU" <=> cpuCandidate = Undefined
    /\ cpuCandidate # Undefined => (networkCandidate = Undefined /\ networkQueue = <<>>)
    /\ cpuQuietPeriods = <<>> => culprit = "CPU"

\* the error is thrown with no CPU period but several network periods
ThrownWithoutCpuPeriod ==
  /\ pc = "thrown"
  /\ cpuQuietPeriods = <<>>
  /\ Len(networkQuietPeriods) >= 2

(***************************************************************************)
(* Properties of _findNetworkQuietPeriods (SpecNet)                        *)
(***************************************************************************)
\* C6: a time that is no boundary time lies in a returned period exactly when
\* at most ALLOWED_CONCURRENT_REQUESTS eligible records are in flight then.
QuietPeriodsAreLowConcurrency ==
  pc = "netDone" =>
    \A t \in ProbeTimes(networkRecords) :
      Covered(quietPeriods, t)
        <=> Concurrency(networkRecords, t) <= ALLOWED_CONCURRENT_REQUESTS

\* the sweep ends with a busy stretch between quiet periods and a data or ws
\* record inside the trace
BusyStretchWithIneligibleRecord ==
  /\ pc = "netDone"
  /\ Len(quietPeriods) >= 2
  /\ \E t \in ProbeTimes(networkRecords) : ~Covered(quietPeriods, t)
  /\ \E i \in 1..Len(networkRecords) :
       /\ networkRecords[i].scheme \in {"data", "ws"}
       /\ networkRecords[i].startTime < networkRecords[i].endTime

\* C9 as stated: every order of equal-time boundaries gives the same periods.
TieOrderGivesSamePeriods ==
  pc = "netDone" =>
    \A other \in FindNetworkQuietPeriods(networkRecords, timestamps.traceEnd) :
      other = quietPeriods

\* C9 amended: every order of equal-time boundaries gives periods that cover
\* the same times apart from boundary times, and the same periods when no start
\* boundary has the time of an end boundary.
TieOrderGivesSameCoverage ==
  pc = "netDone" =>
    \A other \in FindNetworkQuietPeriods(networkRecords, timestamps.traceEnd) :
      /\ \A t \in ProbeTimes(networkRecords) :
           Covered(other, t) <=> Covered(quietPeriods, t)
      /\ ~StartMeetsEnd(networkRecords) => other = quietPeriods

\* the sweep has ended for records whose boundaries can be visited in orders
\* that give different periods
TieOrderMatters ==
  /\ pc = "netDone"
  /\ ~endBeforeStart
  /\ \E other \in FindNetworkQuietPeriods(networkRecords, timestamps.traceEnd) :
       other # quietPeriods

\* C10: while no record's end boundary is visited before its start boundary,
\* quietPeriodStart is Infinity exactly when inflight exceeds
\* ALLOWED_CONCURRENT_REQUESTS, inflight is never negative, and no period is
\* pushed with start Infinity.
SentinelIffOverAllowed ==
  (pc \in {"forEach", "netDone"} /\ ~endBeforeStart) =>
    /\ pc = "forEach" =>
         (quietPeriodStart = Infinity <=> inflight > ALLOWED_CONCURRENT_REQUESTS)
    /\ inflight >= 0
    /\ \A i \in 1..Len(quietPeriods) : quietPeriods[i].start # Infinity

\* the sweep is above the allowed concurrency for the second time
SecondBusyStretch ==
  /\ pc = "forEach"
  /\ ~endBeforeStart
  /\ inflight > ALLOWED_CONCURRENT_REQUESTS
  /\ quietPeriodStart = Infinity
  /\ Len(quietPeriods) >= 2

====
